---- MODULE Spec2Model ----
(***************************************************************************)
(* State-machine model of the legal-application front end: the upload      *)
(* component, the status pollers (ProcessingMonitor, NER, Summary), the    *)
(* chat components (RAGChat variants, ChatInterface, the legacy RAGChat,   *)
(* the routed ChatPage) and the two parent pages (tabbed app and stepper   *)
(* app) of src/app/page.tsx.  The two back ends are external: every        *)
(* response they can give is a nondeterministic input of the handler that  *)
(* receives it.                                                            *)
(*                                                                         *)
(* React conventions used throughout: a handler and the render and effects *)
(* it causes are one atomic step; a state setter called with an unchanged  *)
(* primitive value causes no render; setters of an unmounted component are *)
(* no-ops, setters of the (still mounted) parent are not.                  *)
(***************************************************************************)
EXTENDS Naturals, Sequences, FiniteSets, TLC

VARIABLES
  app,              \* which page component is running: "upload", "stepper", "tabbed", "legacy", "chatpage"
  ragVariant,       \* which RAGChat source the tabbed app renders: "A", "B", "X"
  \* ---- parent state (LegalDocumentAnalyzer, both pages)
  activePage,       \* tabbed page: 'upload' | 'ner' | 'summary' | 'chat'
  currentStep,      \* stepper page: 'upload' | 'processing' | 'results' | 'chat'
  sessionId,
  uploadedFile,
  processingStatus,
  nerResults,
  summaryResults,
  chatHistory,
  error,
  \* ---- upload component
  isLoading,        \* FileUpload.isLoading / stepper isLoading
  uploads,          \* upload POSTs in flight
  \* ---- pollers
  chains,           \* polling chains alive: a request in flight or a timer pending
  \* ---- chat component (RAGChat / ChatInterface / legacy RAGChat)
  chat,             \* local state of the mounted chat component
  reqs,             \* init / history / chat requests in flight
  timers,           \* abort timers armed and not cleared
  abortControllerRef, \* per mount: the controller the ref holds, or NULL
  \* ---- bookkeeping of the model
  net               \* counters of what was issued (ids, totals)

vars == <<app, ragVariant, activePage, currentStep, sessionId, uploadedFile,
          processingStatus, nerResults, summaryResults, chatHistory, error,
          isLoading, uploads, chains, chat, reqs, timers,
          abortControllerRef, net>>

NULL == "null"

----------------------------------------------------------------------------
(* Bounds of the model *)

MaxUploads  == 1   \* upload POSTs issued in one behaviour of a page with pollers or chat
MaxDrops    == 2   \* upload POSTs issued in one behaviour of the upload component alone
MaxPolls    == 3   \* status requests issued in one behaviour
MaxSends    == 2   \* chat POSTs issued in one behaviour
MaxMounts   == 2   \* mounts of the chat component in one behaviour
MaxEffects  == 3   \* runs of the chat component's mount effect in one behaviour

----------------------------------------------------------------------------
(* Upload: files and validation (handleFile)                                *)

\* A file name is the sequence of its '.'-separated segments: <<"a","PDF">> is
\* "a.PDF", <<"pdf">> is "pdf" (no dot), <<"a","">> is "a.", <<"","pdf">> is ".pdf".
SizeLimit == 50 * 1024 * 1024

Names == { <<"a", "pdf">>, <<"a", "PDF">>, <<"a", "txt">>, <<"a", "docx">>,
           <<"a", "Doc">>, <<"pdf">>, <<"", "pdf">>, <<"a", "">>, <<"a", "exe">>,
           <<"a", "pdf", "exe">>, <<"a", "pdfx">> }

Sizes == { 1, SizeLimit, SizeLimit + 1 }

AllFiles == [name : Names, size : Sizes]

SmallFiles == { [name |-> <<"a", "pdf">>, size |-> 1],
                [name |-> <<"a", "exe">>, size |-> 1] }

NoFile == [name |-> << >>, size |-> 0]      \* uploadedFile = null

Files == IF app = "upload" THEN AllFiles ELSE SmallFiles

\* String.prototype.toLowerCase on the segments used
toLowerCase(s) ==
  CASE s = "PDF" -> "pdf"
    [] s = "Doc" -> "doc"
    [] OTHER -> s

\* '.' + s, on the segments used
Dot(s) ==
  CASE s = "pdf"  -> ".pdf"
    [] s = "PDF"  -> ".PDF"
    [] s = "txt"  -> ".txt"
    [] s = "docx" -> ".docx"
    [] s = "doc"  -> ".doc"
    [] s = "Doc"  -> ".Doc"
    [] s = "exe"  -> ".exe"
    [] s = "pdfx" -> ".pdfx"
    [] s = "a"    -> ".a"
    [] OTHER      -> "."

allowedTypes == << ".pdf", ".txt", ".docx", ".doc" >>

Includes(seq, x) == \E i \in 1..Len(seq) : seq[i] = x

\* mutation: the segment after the first '.' instead of the last
FileNameExt_Mutant(file) ==
  IF Len(file.name) > 1 THEN file.name[2] ELSE ""

\* const ext = file.name.includes('.') ? file.name.split('.').pop() : '';
FileNameExt(file) ==
  IF Len(file.name) > 1 THEN file.name[Len(file.name)] ELSE ""

\* const fileExt = '.' + (ext ? ext.toLowerCase() : '');
fileExt(file) ==
  LET ext == FileNameExt(file)
  IN  Dot(IF ext # "" THEN toLowerCase(ext) ELSE "")

TypeRejected(file) == ~Includes(allowedTypes, fileExt(file))

\* mutation: >= instead of >
SizeRejected_Mutant(file) == file.size >= SizeLimit

SizeRejected(file) == file.size > SizeLimit

\* A message shown to the user is the sequence of the strings it is built
\* from (a template literal's parts, a joined list's elements); null is <<>>.
NoMsg == << >>

Str(s) == << s >>

\* `Unsupported file type. Please upload: ${allowedTypes.join(', ')}`
UnsupportedMsg == << "Unsupported file type. Please upload: " >> \o allowedTypes

TooLargeMsg == Str("File too large. Maximum size is 50MB.")

\* a || b on strings and null: the empty string and null are falsy
Or(a, b) == IF a # NULL /\ a # "" THEN a ELSE b

----------------------------------------------------------------------------
(* Values exchanged with the back ends                                      *)

\* session ids handed out by POST /upload, in order
SessionName(n) ==
  CASE n = 1 -> "s1"
    [] n = 2 -> "s2"
    [] n = 3 -> "s3"
    [] OTHER -> "s4"

SessionIds == { SessionName(n) : n \in 1..(MaxUploads + 1) }

\* how many upload POSTs a behaviour may issue
UploadBound == IF app = "upload" THEN MaxDrops ELSE MaxUploads

\* GET /status/{id} -> { session: { status, error? } }; "queued" stands for
\* any status value the client does not know
StatusValues == { "uploaded", "processing", "completed", "failed", "queued" }

ErrorFields == { NULL, "", "boom" }          \* session.error: absent, empty, a text

StatusBodies ==
  [status : StatusValues \ {"failed"}, error : {NULL}]
    \cup [status : {"failed"}, error : ErrorFields]

\* a request that fails: network error or non-2xx, with or without
\* response.data.detail; message is error.message
Failures == { [detail |-> NULL, message |-> "Network Error"],
              [detail |-> "detail", message |-> "Request failed with status code 500"] }

\* the results of session sid, as GET /results/{sid} returns them: a results
\* object is identified by the session it belongs to
ResultsOf(sid) == sid

----------------------------------------------------------------------------
(* Initial state                                                            *)

Apps == { "upload", "stepper", "tabbed", "legacy", "chatpage" }

NoChat ==
  [ mount |-> 0, message |-> "", isLoading |-> FALSE,
    ragInitialized |-> FALSE,                \* ChatInterface
    sessionLoaded |-> FALSE,                 \* RAGChat, ui/rag-chat.tsx
    isInitialQuery |-> TRUE,                 \* RAGChat, part_002
    currentSessionId |-> NULL, ragStatus |-> NULL ]   \* legacy RAGChat

NewChat(m) == [NoChat EXCEPT !.mount = m]

NoCounts ==
  [ uploads |-> 0, sessions |-> 0, chains |-> 0, polls |-> 0, sends |-> 0, sentTo |-> << >>,
    mounts |-> 0, effects |-> 0, results |-> [s \in SessionIds |-> 0],
    initOk |-> {}, initFailed |-> {},        \* mounts whose POST /init succeeded / did not
    answered |-> {} ]                        \* sessions an assistant answer was received for

\* a request in flight: issued for session sid by the chat instance mounted
\* as number m; n numbers the requests of its kind
Request(kind, sid, m, n) ==
  [kind |-> kind, sid |-> sid, mount |-> m, id |-> n, first |-> FALSE, text |-> "",
   prior |-> FALSE]

InitApp(a) ==
  /\ app = a
  /\ ragVariant \in (IF a = "tabbed" THEN {"A", "B", "X"} ELSE {"-"})
  /\ activePage = "upload"
  /\ currentStep = "upload"
  /\ sessionId \in (CASE a = "legacy"   -> {NULL, "s1"}
                     [] a = "chatpage" -> SessionIds     \* useParams().sessionId
                     [] OTHER          -> {NULL})
  /\ uploadedFile = NoFile
  /\ processingStatus = NULL
  /\ nerResults = NULL
  /\ summaryResults = NULL
  /\ chatHistory = << >>
  /\ error = NoMsg
  /\ isLoading = (a = "chatpage")              \* ChatPage: useState(true)
  /\ uploads = {}
  /\ chains = {}
  /\ chat = IF a \in {"legacy", "chatpage"} THEN NewChat(1) ELSE NoChat
  /\ reqs = CASE a = "legacy"   -> {Request("ragstatus", sessionId, 1, 0)}
            [] a = "chatpage" -> {Request("status", sessionId, 1, 0)}
            [] OTHER          -> {}
  /\ timers = {}
  /\ abortControllerRef = [m \in 1..MaxMounts |-> 0]
  /\ net = NoCounts

----------------------------------------------------------------------------
(* Effects that run after a render                                          *)

\* a polling chain: n counts its status requests, late those it issued while
\* the view that started it was no longer showing its session
ChainStart(n, comp, sid) ==
  [id |-> n, comp |-> comp, sid |-> sid, pc |-> "status", first |-> TRUE,
   n |-> 1, delay |-> 0, late |-> 0]

\* Stepper page, src/app/page.tsx:373-404.  ProcessingMonitor's effect depends
\* on the inline onComplete / setError / setProcessingStatus props and
\* ChatInterface's on initializeRAG, which depends on the inline setError: both
\* run again after every render of the parent (rr).  ch0, rq0, c0, n0 are
\* chains, reqs, chat and net as the handler left them.
StepperEffects(rr, ch0, rq0, c0, n0) ==
  LET pm  == rr /\ currentStep' = "processing" /\ sessionId' # NULL
      ci  == rr /\ currentStep' = "chat"
      cid == n0.chains + 1
      eid == n0.effects + 1
  IN  /\ pm => n0.polls < MaxPolls
      /\ ci => n0.effects < MaxEffects
      /\ chains' = IF pm THEN ch0 \cup {ChainStart(cid, "pm", sessionId')} ELSE ch0
      /\ reqs' = IF ci
                 THEN rq0 \cup { Request("init", sessionId', c0.mount, eid),
                                 Request("history", sessionId', c0.mount, eid) }
                 ELSE rq0
      /\ chat' = IF currentStep' # "chat" THEN NoChat
                 ELSE IF ci THEN [c0 EXCEPT !.isLoading = TRUE] ELSE c0
      /\ net' = [n0 EXCEPT !.chains = IF pm THEN cid ELSE @,
                           !.polls = IF pm THEN @ + 1 ELSE @,
                           !.effects = IF ci THEN eid ELSE @]

\* Tabbed page, src/app/page.tsx:82-116.  NER (part_002:539-592) and Summary
\* (ui/summary.tsx:33-86) run their effect on mount and when sessionId or the
\* results prop changes; RAGChat runs its history effect on mount and when
\* sessionId changes.  h0 is chatHistory as the handler left it.
TabbedEffects(h0, ch0, rq0, c0, n0) ==
  LET nerRuns  == /\ activePage' = "ner"
                  /\ (activePage # "ner" \/ sessionId' # sessionId \/ nerResults' # nerResults)
                  /\ sessionId' # NULL /\ nerResults' = NULL
      sumRuns  == /\ activePage' = "summary"
                  /\ (activePage # "summary" \/ sessionId' # sessionId
                        \/ summaryResults' # summaryResults)
                  /\ sessionId' # NULL /\ summaryResults' = NULL
      chatRuns == activePage' = "chat" /\ (activePage # "chat" \/ sessionId' # sessionId)
      load     == chatRuns /\ sessionId' # NULL
      cid      == n0.chains + 1
      eid      == n0.effects + 1
  IN  /\ (nerRuns \/ sumRuns) => n0.polls < MaxPolls
      /\ load => n0.effects < MaxEffects
      /\ chains' = IF nerRuns THEN ch0 \cup {ChainStart(cid, "ner", sessionId')}
                   ELSE IF sumRuns THEN ch0 \cup {ChainStart(cid, "summary", sessionId')}
                   ELSE ch0
      /\ reqs' = IF load THEN rq0 \cup {Request("history", sessionId', c0.mount, eid)}
                 ELSE rq0
      /\ chatHistory' = IF chatRuns /\ ~load /\ ragVariant \in {"A", "B"} THEN << >> ELSE h0
      /\ chat' = IF activePage' # "chat" THEN NoChat
                 ELSE IF chatRuns /\ ~load /\ ragVariant = "A"
                   THEN [c0 EXCEPT !.sessionLoaded = FALSE]
                 ELSE IF chatRuns /\ ~load /\ ragVariant = "B"
                   THEN [c0 EXCEPT !.isInitialQuery = TRUE]
                 ELSE IF load /\ ragVariant = "B"
                   THEN [c0 EXCEPT !.isLoading = TRUE]
                 ELSE c0
      /\ net' = [n0 EXCEPT !.chains = IF nerRuns \/ sumRuns THEN cid ELSE @,
                           !.polls = IF nerRuns \/ sumRuns THEN @ + 1 ELSE @,
                           !.effects = IF load THEN eid ELSE @]

----------------------------------------------------------------------------
(* Upload: FileUpload (ui/file-upload.tsx) and FileUploader (page.tsx:446)  *)

UploaderMounted ==
  IF app = "stepper" THEN currentStep = "upload"
  ELSE app \in {"upload", "tabbed"} /\ activePage = "upload"

\* handleFile's two checks, in order: "type", "size" or "ok"
Validate(file) ==
  IF TypeRejected(file) THEN "type"
  ELSE IF SizeRejected(file) THEN "size"
  ELSE "ok"

\* handleFile(file), called by handleDrop and handleChange
HandleFile(file) ==
  LET v      == Validate(file)
      posted == v = "ok"
      n      == net.uploads + 1
  IN  /\ UploaderMounted
      /\ posted => net.uploads < UploadBound
      /\ error' = CASE v = "type" -> UnsupportedMsg
                    [] v = "size" -> TooLargeMsg
                    [] OTHER      -> NoMsg
      /\ isLoading' = IF posted THEN TRUE ELSE isLoading
      /\ uploads' = IF posted
                    THEN uploads \cup {[id |-> n, file |-> file, live |-> TRUE]}
                    ELSE uploads
      /\ net' = IF posted THEN [net EXCEPT !.uploads = n] ELSE net
      /\ UNCHANGED <<app, ragVariant, activePage, currentStep, sessionId, uploadedFile,
                     processingStatus, nerResults, summaryResults, chatHistory,
                     chains, chat, reqs, timers, abortControllerRef>>

\* POST /upload -> { success, session_id } | { success: false, message? } | failure
\* (every variant for the upload component alone, one of each kind elsewhere)
UploadOutcomes ==
  IF app = "upload"
  THEN [kind : {"success"}] \cup [kind : {"refused"}, message : {NULL, "bad file"}]
         \cup [kind : {"failure"}, f : Failures]
  ELSE [kind : {"success"}] \cup [kind : {"refused"}, message : {NULL}]
         \cup [kind : {"failure"}, f : {[detail |-> NULL, message |-> "Network Error"]}]

\* mutation: a catch block that leaves the banner alone
UploadErrorMsg_Mutant(o) == NoMsg

\* the catch block: setError(detail || error.message || 'Upload failed')
UploadErrorMsg(o) ==
  IF o.kind = "refused" THEN Str(Or(NULL, Or(o.message, "Upload failed")))
  ELSE Str(Or(o.f.detail, Or(o.f.message, "Upload failed")))

\* the continuation of handleFile after `await axios.post(.../upload)`
UploadResponse(u, o) ==
  LET ok  == o.kind = "success"
      sid == SessionName(net.sessions + 1)
      n0  == IF ok THEN [net EXCEPT !.sessions = @ + 1] ELSE net
  IN  /\ u \in uploads
      /\ app \in {"upload", "tabbed", "stepper"}
      /\ uploads' = { IF app # "stepper" /\ ok THEN [x EXCEPT !.live = FALSE] ELSE x :
                        x \in uploads \ {u} }
      /\ uploadedFile' = IF ok THEN u.file ELSE uploadedFile
      /\ sessionId' = IF ok THEN sid ELSE sessionId
      /\ error' = IF ok THEN error ELSE UploadErrorMsg(o)
      /\ UNCHANGED <<app, ragVariant, processingStatus, nerResults, summaryResults,
                     timers, abortControllerRef>>
      /\ IF app = "stepper"
         THEN /\ currentStep' = IF ok THEN "processing" ELSE currentStep
              /\ isLoading' = FALSE
              /\ UNCHANGED <<activePage, chatHistory>>
              /\ StepperEffects(ok \/ isLoading \/ error' # error, chains, reqs, chat, n0)
         ELSE /\ activePage' = IF ok THEN "ner" ELSE activePage
              /\ isLoading' = IF ok THEN FALSE
                              ELSE IF u.live /\ activePage = "upload" THEN FALSE
                              ELSE isLoading
              /\ UNCHANGED currentStep
              /\ TabbedEffects(chatHistory, chains, reqs, chat, n0)

----------------------------------------------------------------------------
(* Status pollers: ProcessingMonitor.checkStatus (page.tsx:588-624,         *)
(* part_000:448-484), NER.fetchNERResults / pollStatus (part_002:542-589),  *)
(* Summary.fetchSummaryResults / pollStatus (ui/summary.tsx:36-83)          *)

PollDelay == 2000                           \* setTimeout(checkStatus, 2000)

\* What a chain does after a status body: "results" (GET /results), "stop",
\* or "timer" (setTimeout(..., 2000)).
\* mutation: only the recognised statuses keep polling
PmAfterStatus_Mutant(status) ==
  CASE status = "completed"                 -> "results"
    [] status \in {"uploaded", "processing"} -> "timer"
    [] OTHER                                 -> "stop"

\* ProcessingMonitor: the switch of checkStatus; default falls through to the timer.
PmAfterStatus(status) ==
  CASE status = "completed" -> "results"
    [] status = "failed"    -> "stop"
    [] OTHER                -> "timer"

\* NER / Summary: the if-chain of the first fetch (first) and of pollStatus.
ViewAfterStatus(first, status) ==
  IF first
  THEN CASE status = "completed"                 -> "results"
         [] status \in {"processing", "uploaded"} -> "timer"
         [] OTHER                                 -> "stop"
  ELSE CASE status = "completed" -> "results"
         [] status = "failed"    -> "stop"
         [] OTHER                -> "timer"

AfterStatus(c, status) ==
  IF c.comp = "pm" THEN PmAfterStatus(status) ELSE ViewAfterStatus(c.first, status)

\* mutation: the default string whatever session.error is
FailedMsg_Mutant(b) == Str("Processing failed")

\* setError(session.error || 'Processing failed')
FailedMsg(b) == Str(Or(b.error, "Processing failed"))

\* the catch blocks: what the banner is set to when a chain's request fails;
\* pollStatus only logs (KeepMsg: no setError call)
KeepMsg == << "(unchanged)" >>

CatchMsg(c, f) ==
  CASE c.comp = "pm" -> Str(Or(f.detail, "Failed to check processing status"))
    [] c.comp = "ner" /\ c.first ->
         << "Failed to fetch NER results: ", Or(f.detail, f.message) >>
    [] c.comp = "summary" /\ c.first ->
         << "Failed to fetch summary results: ", Or(f.detail, f.message) >>
    [] OTHER -> KeepMsg

SetError(m) == IF m = KeepMsg THEN error ELSE m

StatusOutcomes == [kind : {"body"}, b : StatusBodies] \cup [kind : {"failure"}, f : Failures]

\* the continuation after `await axios.get(.../status/${sessionId})`
StatusResponse(c, o) ==
  LET body == o.kind = "body"
      next == IF body THEN AfterStatus(c, o.b.status) ELSE "stop"
      ch0  == CASE next = "results" -> (chains \ {c}) \cup {[c EXCEPT !.pc = "results"]}
                [] next = "timer"   -> (chains \ {c}) \cup
                                         {[c EXCEPT !.pc = "timer", !.first = FALSE,
                                                    !.delay = PollDelay]}
                [] OTHER            -> chains \ {c}
      n0   == IF next = "results"
              THEN [net EXCEPT !.results[c.sid] = @ + 1]
              ELSE net
  IN  /\ c \in chains /\ c.pc = "status"
      /\ app \in {"stepper", "tabbed"}
      /\ error' = IF body
                  THEN IF o.b.status = "failed" THEN FailedMsg(o.b) ELSE error
                  ELSE SetError(CatchMsg(c, o.f))
      /\ processingStatus' = IF body /\ c.comp = "pm" THEN o.b.status ELSE processingStatus
      /\ UNCHANGED <<app, ragVariant, activePage, currentStep, sessionId, uploadedFile,
                     nerResults, summaryResults, isLoading, uploads, timers,
                     abortControllerRef>>
      /\ IF app = "stepper"
         THEN /\ UNCHANGED chatHistory
              /\ StepperEffects(processingStatus' # processingStatus \/ error' # error,
                                ch0, reqs, chat, n0)
         ELSE TabbedEffects(chatHistory, ch0, reqs, chat, n0)

\* the view that started chain c is rendered, for the session of c
PollerMounted(c) ==
  /\ c.sid = sessionId
  /\ CASE c.comp = "pm"  -> currentStep = "processing"
       [] c.comp = "ner" -> activePage = "ner"
       [] OTHER          -> activePage = "summary"

\* mutation: a timer callback that does nothing once its view is gone
PollTimer_Mutant(c) ==
  /\ c \in chains /\ c.pc = "timer"
  /\ net.polls < MaxPolls
  /\ chains' = IF PollerMounted(c)
               THEN (chains \ {c}) \cup {[c EXCEPT !.pc = "status", !.n = @ + 1, !.delay = 0]}
               ELSE chains \ {c}
  /\ net' = IF PollerMounted(c) THEN [net EXCEPT !.polls = @ + 1] ELSE net
  /\ UNCHANGED <<app, ragVariant, activePage, currentStep, sessionId, uploadedFile,
                 processingStatus, nerResults, summaryResults, chatHistory, error,
                 isLoading, uploads, chat, reqs, timers, abortControllerRef>>

\* the 2000 ms timer of a chain fires: checkStatus() / pollStatus(); the
\* effects return no cleanup function, so nothing clears the timer
PollTimer(c) ==
  /\ c \in chains /\ c.pc = "timer"
  /\ net.polls < MaxPolls
  /\ chains' = (chains \ {c}) \cup
                 {[c EXCEPT !.pc = "status", !.n = @ + 1, !.delay = 0,
                            !.late = IF PollerMounted(c) THEN @ ELSE @ + 1]}
  /\ net' = [net EXCEPT !.polls = @ + 1]
  /\ UNCHANGED <<app, ragVariant, activePage, currentStep, sessionId, uploadedFile,
                 processingStatus, nerResults, summaryResults, chatHistory, error,
                 isLoading, uploads, chat, reqs, timers, abortControllerRef>>

ResultsOutcomes == [kind : {"success", "refused"}] \cup [kind : {"failure"}, f : Failures]

\* the continuation after `await axios.get(.../results/${sessionId})`
ResultsResponse(c, o) ==
  LET ok == o.kind = "success"
  IN  /\ c \in chains /\ c.pc = "results"
      /\ error' = IF o.kind = "failure" THEN SetError(CatchMsg(c, o.f)) ELSE error
      /\ nerResults' = IF ok /\ c.comp \in {"pm", "ner"} THEN ResultsOf(c.sid) ELSE nerResults
      /\ summaryResults' = IF ok /\ c.comp \in {"pm", "summary"} THEN ResultsOf(c.sid)
                           ELSE summaryResults
      /\ processingStatus' = IF ok /\ c.comp = "pm" THEN "completed" ELSE processingStatus
      /\ currentStep' = IF ok /\ c.comp = "pm" THEN "results" ELSE currentStep
      /\ UNCHANGED <<app, ragVariant, activePage, sessionId, uploadedFile, isLoading,
                     uploads, timers, abortControllerRef>>
      /\ IF app = "stepper"
         THEN /\ UNCHANGED chatHistory
              /\ StepperEffects(ok \/ error' # error, chains \ {c}, reqs, chat, net)
         ELSE TabbedEffects(chatHistory, chains \ {c}, reqs, chat, net)

----------------------------------------------------------------------------
(* The parent pages: LegalDocumentAnalyzer (page.tsx:50-251, tabbed) and    *)
(* LegalDocumentAnalyzer (page.tsx:266-408, part_000:52-232, stepper)       *)

\* in-flight uploads of a FileUpload instance that has unmounted
Orphaned(us) == { [x EXCEPT !.live = FALSE] : x \in us }

\* mutation: resetSession without setError(null)
ResetSession_Mutant ==
  /\ app \in {"upload", "tabbed", "stepper"}
  /\ sessionId # NULL
  /\ sessionId' = NULL
  /\ uploadedFile' = NoFile
  /\ nerResults' = NULL
  /\ summaryResults' = NULL
  /\ UNCHANGED <<app, ragVariant, chatHistory, error, timers, abortControllerRef>>
  /\ IF app = "stepper"
     THEN /\ currentStep' = "upload"
          /\ processingStatus' = NULL
          /\ UNCHANGED <<activePage, isLoading, uploads>>
          /\ StepperEffects(TRUE, chains, reqs, chat, net)
     ELSE /\ activePage' = "upload"
          /\ UNCHANGED <<currentStep, processingStatus, isLoading, uploads, chains, reqs, net>>
          /\ chat' = NoChat

\* resetSession, the 'New Document' button (rendered while sessionId is set)
ResetSession ==
  /\ app \in {"upload", "tabbed", "stepper"}
  /\ sessionId # NULL
  /\ sessionId' = NULL
  /\ uploadedFile' = NoFile
  /\ nerResults' = NULL
  /\ summaryResults' = NULL
  /\ chatHistory' = << >>
  /\ error' = NoMsg
  /\ UNCHANGED <<app, ragVariant, timers, abortControllerRef>>
  /\ IF app = "stepper"
     THEN /\ currentStep' = "upload"
          /\ processingStatus' = NULL
          /\ UNCHANGED <<activePage, isLoading, uploads>>
          /\ StepperEffects(TRUE, chains, reqs, chat, net)
     ELSE /\ activePage' = "upload"
          /\ UNCHANGED <<currentStep, processingStatus, isLoading, uploads, chains, reqs, net>>
          /\ chat' = NoChat

Pages == { "upload", "ner", "summary", "chat" }

\* mutation: every tab enabled
NavEnabled_Mutant(item) == item \in Pages

\* navigationItems[..].enabled
NavEnabled(item) == item = "upload" \/ sessionId # NULL

\* onClick={() => item.enabled && setActivePage(item.id)}
NavClick(item) ==
  LET go    == NavEnabled(item) /\ item # activePage
      mount == go /\ item = "chat"
      leave == go /\ activePage = "upload"
  IN  /\ app = "tabbed" \/ (app = "upload" /\ item = "upload")
      /\ mount => net.mounts < MaxMounts
      /\ activePage' = IF go THEN item ELSE activePage
      /\ isLoading' = IF leave THEN FALSE ELSE isLoading
      /\ uploads' = IF leave THEN Orphaned(uploads) ELSE uploads
      /\ UNCHANGED <<app, ragVariant, currentStep, sessionId, uploadedFile, processingStatus,
                     nerResults, summaryResults, error, timers, abortControllerRef>>
      /\ TabbedEffects(chatHistory, chains, reqs,
                       IF mount THEN NewChat(net.mounts + 1) ELSE chat,
                       IF mount THEN [net EXCEPT !.mounts = @ + 1] ELSE net)

\* onStartChat={() => setCurrentStep('chat')}, the button of ResultsDisplay
StartChat ==
  /\ app = "stepper"
  /\ currentStep = "results"
  /\ net.mounts < MaxMounts
  /\ currentStep' = "chat"
  /\ UNCHANGED <<app, ragVariant, activePage, sessionId, uploadedFile, processingStatus,
                 nerResults, summaryResults, chatHistory, error, isLoading, uploads,
                 timers, abortControllerRef>>
  /\ StepperEffects(TRUE, chains, reqs, NewChat(net.mounts + 1),
                    [net EXCEPT !.mounts = @ + 1])

----------------------------------------------------------------------------
(* Chat: RAGChat of ui/rag-chat.tsx:38-221 ("A"), of part_002:50-216 ("B"), *)
(* the axios RAGChat of ui/rag-chat.tsx:545-642 ("X"), and ChatInterface of *)
(* page.tsx:1020-1115, part_000:944-1037 ("CI")                             *)

OPTIMIZED_TIMEOUT == 25000
LOAD_TIMEOUT == 45000

Variant == IF app = "stepper" THEN "CI" ELSE ragVariant

ChatMounted ==
  IF app = "stepper" THEN currentStep = "chat" ELSE app = "tabbed" /\ activePage = "chat"

\* what the user can type, and the first example question
Inputs == { " ", " q " }

Question == "What is the main legal issue in this case?"

\* mutation: no trimming
trim_Mutant(s) == s

\* String.prototype.trim on the texts used
trim(s) ==
  CASE s = " "   -> ""
    [] s = " q " -> "q"
    [] OTHER     -> s

\* ChatMessage; re is the number of the chat request a message belongs to
\* (0: a message that came with GET /history)
UserMsg(text, n) == [role |-> "user", message |-> Str(text), error |-> FALSE, re |-> n]

AssistantMsg(m, n) == [role |-> "assistant", message |-> m, error |-> FALSE, re |-> n]

ErrorMsg(m, n) == [role |-> "assistant", message |-> m, error |-> TRUE, re |-> n]

\* GET /history/{id} -> chat_history
Histories ==
  { << >>,
    << UserMsg("an earlier question", 0), AssistantMsg(Str("an earlier answer"), 0) >> }

\* the input field's `disabled` attribute, negated
InputEnabled ==
  CASE Variant \in {"A", "B"} -> sessionId # NULL /\ ~chat.isLoading
    [] Variant = "X"          -> trim(chat.message) # ""
    [] OTHER                  -> ~chat.isLoading /\ chat.ragInitialized

\* the condition under which the example questions are rendered
ExamplesShown ==
  CASE Variant \in {"A", "X"} -> sessionId # NULL /\ Len(chatHistory) = 0 /\ ~chat.isLoading
    [] Variant = "B"          -> sessionId # NULL /\ chat.isInitialQuery /\ ~chat.isLoading
    [] OTHER                  -> chat.ragInitialized /\ Len(chatHistory) = 0

\* onChange of the input, onClick of an example question
SetMessage(text) ==
  /\ ChatMounted
  /\ \/ InputEnabled /\ text \in Inputs
     \/ ExamplesShown /\ text = Question
  /\ text # chat.message
  /\ chat' = [chat EXCEPT !.message = text]
  /\ UNCHANGED <<app, ragVariant, activePage, currentStep, sessionId, uploadedFile,
                 processingStatus, nerResults, summaryResults, chatHistory, error,
                 isLoading, uploads, chains, reqs, timers, abortControllerRef, net>>

\* the catch block's text for an AbortError
TimedOutText(first) ==
  CASE Variant = "A" /\ first ->
         "Document loading timed out. The document may be large or the server may be busy. Please try again."
    [] Variant = "A" /\ ~first ->
         "Query timed out. Please try a simpler question or try again."
    [] Variant = "B" /\ first ->
         "Document loading timed out. The server may be busy; please try again."
    [] OTHER ->
         "Your question timed out. Please try a simpler question or try again."

\* the parent after the render a chat handler caused: the mount effects of
\* the page run on the new state
ChatEffects(h0, rq0, c0, n0, rr) ==
  IF app = "stepper"
  THEN chatHistory' = h0 /\ StepperEffects(rr, chains, rq0, c0, n0)
  ELSE TabbedEffects(h0, chains, rq0, c0, n0)

\* local setters act on the instance that made the request, while it is mounted
Live(r) == ChatMounted /\ chat.mount = r.mount

\* sendMessage
SendMessage ==
  LET v       == Variant
      text    == trim(chat.message)
      blocked == \/ text = ""
                 \/ chat.isLoading
                 \/ IF v = "CI" THEN ~chat.ragInitialized ELSE sessionId = NULL
      n       == net.sends + 1
      first   == CASE v = "A" -> ~chat.sessionLoaded /\ Len(chatHistory) = 0
                   [] v = "B" -> chat.isInitialQuery
                   [] OTHER   -> FALSE
      ctl     == v \in {"A", "B"}
      old     == IF ctl THEN { r \in reqs : r.kind = "chat" /\ r.mount = chat.mount
                                            /\ r.id = abortControllerRef[chat.mount] }
                 ELSE {}
      \* abortControllerRef.current.abort(): the previous call of this
      \* instance rejects with an AbortError and runs its catch and finally
      aborted == { ErrorMsg(Str(TimedOutText(r.first)), r.id) : r \in old }
      abortMs == CHOOSE m \in aborted : TRUE
      new     == [kind |-> "chat", sid |-> sessionId, mount |-> chat.mount, id |-> n,
                  first |-> first, text |-> text,
                  prior |-> \E i \in 1..Len(chatHistory) : chatHistory[i].role = "assistant"]
      h1      == Append(chatHistory, UserMsg(text, n))
      h0      == IF old = {} THEN h1 ELSE Append(h1, abortMs)
  IN  /\ ChatMounted
      /\ IF blocked
         THEN UNCHANGED vars
         ELSE /\ net.sends < MaxSends
              /\ error' = IF v = "CI" THEN error
                          ELSE IF old = {} THEN NoMsg ELSE abortMs.message
              /\ timers' = IF ctl
                           THEN timers \cup {[req |-> n, mount |-> chat.mount,
                                              ms |-> IF first THEN LOAD_TIMEOUT
                                                     ELSE OPTIMIZED_TIMEOUT]}
                           ELSE timers
              /\ abortControllerRef' =
                   IF ctl THEN [abortControllerRef EXCEPT ![chat.mount] =
                                   IF old = {} THEN n ELSE 0]
                   ELSE abortControllerRef
              /\ UNCHANGED <<app, ragVariant, activePage, currentStep, sessionId,
                             uploadedFile, processingStatus, nerResults, summaryResults,
                             isLoading, uploads>>
              /\ ChatEffects(h0, (reqs \ old) \cup {new},
                             [chat EXCEPT !.message = "", !.isLoading = (old = {})],
                             [net EXCEPT !.sends = n, !.sentTo = Append(@, sessionId)],
                             TRUE)

\* POST /chat/{id}: an answer (success), a body with success=false, a request
\* that fails (Failures), or - axios only - its own 60 s timeout (ECONNABORTED)
ChatOutcomes ==
  [kind : {"answer", "refused"}] \cup [kind : {"failure"}, f : Failures]
    \cup (IF Variant = "X" THEN [kind : {"timeout"}] ELSE {})

\* errorMessage of the catch block, for a call that did not succeed
ChatErrorText(o) ==
  CASE Variant = "A" ->
         IF o.kind = "refused" THEN Str("Chat processing failed")
         ELSE Str(Or(o.f.detail, o.f.message))
    [] Variant = "B" ->
         IF o.kind = "refused" THEN Str("Chat processing failed")
         ELSE IF o.f.detail # NULL
           THEN Str("A server error occurred. Please try again in a moment.")
         ELSE Str(o.f.message)
    [] Variant = "X" ->
         IF o.kind = "timeout"
           THEN Str("Request timed out. The system may be loading your document. Please try again.")
         ELSE IF o.kind = "failure" /\ o.f.detail # NULL
           THEN << "Error: ", o.f.detail >>
         ELSE Str("Sorry, I encountered an error processing your question.")
    [] OTHER ->
         Str("Sorry, I encountered an error processing your question. Please try again.")

\* what the catch block passes to setError
ChatBanner(o) ==
  IF Variant # "CI" THEN ChatErrorText(o)
  ELSE IF o.kind = "refused" THEN << "Chat failed: ", Or(NULL, "Chat failed") >>
  ELSE << "Chat failed: ", Or(o.f.detail, o.f.message) >>

\* the catch and finally blocks of the call r, which appends msg
Settle(r, msg, banner, tm) ==
  LET ok == ~msg.error
      c0 == IF Live(r)
            THEN [chat EXCEPT !.isLoading = FALSE,
                              !.sessionLoaded = IF Variant = "A" /\ ok /\ r.first
                                                THEN TRUE ELSE @,
                              !.isInitialQuery = IF Variant = "B" /\ ok /\ r.first
                                                 THEN FALSE ELSE @]
            ELSE chat
      n0 == IF ok THEN [net EXCEPT !.answered = @ \cup {r.sid}] ELSE net
  IN  /\ error' = IF ok THEN error ELSE banner
      /\ timers' = tm
      /\ abortControllerRef' =
           IF Variant \in {"A", "B"} THEN [abortControllerRef EXCEPT ![r.mount] = 0]
           ELSE abortControllerRef
      /\ UNCHANGED <<app, ragVariant, activePage, currentStep, sessionId, uploadedFile,
                     processingStatus, nerResults, summaryResults, isLoading, uploads>>
      /\ ChatEffects(Append(chatHistory, msg), reqs \ {r}, c0, n0, TRUE)

\* the continuation of sendMessage after `await fetch(...)` / `await axios.post(...)`;
\* clearTimeout(timeoutId) runs only when fetch resolved (an answer, a body
\* with success=false, a non-2xx response), not when it rejected (a network
\* error: the failure without detail)
ChatResponse(r, o) ==
  /\ r \in reqs /\ r.kind = "chat"
  /\ app \in {"stepper", "tabbed"}
  /\ Settle(r,
            IF o.kind = "answer" THEN AssistantMsg(Str("the answer"), r.id)
            ELSE ErrorMsg(ChatErrorText(o), r.id),
            IF o.kind = "answer" THEN NoMsg ELSE ChatBanner(o),
            IF o.kind = "failure" /\ o.f.detail = NULL THEN timers
            ELSE { t \in timers : t.req # r.id })

\* mutation: a callback that finds no controller to abort
AbortTimer_Mutant(t) ==
  /\ t \in timers
  /\ timers' = timers \ {t}
  /\ UNCHANGED <<app, ragVariant, activePage, currentStep, sessionId, uploadedFile,
                 processingStatus, nerResults, summaryResults, chatHistory, error,
                 isLoading, uploads, chains, chat, reqs, abortControllerRef, net>>

\* the callback of setTimeout(..., timeout): aborts whatever call the ref of
\* its instance holds now; that call rejects with an AbortError
AbortTimer(t) ==
  LET hit == { r \in reqs : r.kind = "chat" /\ r.mount = t.mount
                            /\ r.id = abortControllerRef[t.mount] }
      r   == CHOOSE x \in hit : TRUE
  IN  /\ t \in timers
      /\ IF hit = {}
         THEN /\ timers' = timers \ {t}
              /\ UNCHANGED <<app, ragVariant, activePage, currentStep, sessionId,
                             uploadedFile, processingStatus, nerResults, summaryResults,
                             chatHistory, error, isLoading, uploads, chains, chat, reqs,
                             abortControllerRef, net>>
         ELSE Settle(r, ErrorMsg(Str(TimedOutText(r.first)), r.id),
                     Str(TimedOutText(r.first)), timers \ {t})

\* GET /history/{id}: a body with chat_history, a body without, or a failure
HistoryOutcomes ==
  [kind : {"history"}, list : Histories] \cup [kind : {"refused"}]
    \cup [kind : {"failure"}, f : Failures]

\* the continuation of loadChatHistory
HistoryResponse(r, o) ==
  LET v       == Variant
      got     == o.kind = "history"
      replace == CASE v \in {"A", "B"} -> got /\ Len(o.list) > 0
                   [] OTHER            -> got
      c0      == IF ~Live(r) THEN chat
                 ELSE CASE v = "A" -> [chat EXCEPT !.sessionLoaded = IF replace THEN TRUE ELSE @]
                        [] v = "B" -> [chat EXCEPT !.isLoading = FALSE,
                                                   !.isInitialQuery =
                                                     IF replace THEN FALSE
                                                     ELSE IF o.kind = "failure" THEN @
                                                     ELSE TRUE]
                        [] OTHER   -> chat
      n0      == IF replace /\ \E i \in 1..Len(o.list) :
                                 o.list[i].role = "assistant" /\ ~o.list[i].error
                 THEN [net EXCEPT !.answered = @ \cup {r.sid}]
                 ELSE net
  IN  /\ r \in reqs /\ r.kind = "history"
      /\ app \in {"stepper", "tabbed"}
      /\ error' = IF v = "B" /\ o.kind = "failure" /\ o.f.detail = NULL
                  THEN Str("Could not retrieve previous conversations.")
                  ELSE error
      /\ UNCHANGED <<app, ragVariant, activePage, currentStep, sessionId, uploadedFile,
                     processingStatus, nerResults, summaryResults, isLoading, uploads,
                     timers, abortControllerRef>>
      /\ ChatEffects(IF replace THEN o.list ELSE chatHistory, reqs \ {r}, c0, n0, replace)

InitOutcomes == [kind : {"success", "refused"}] \cup [kind : {"failure"}, f : Failures]

\* the continuation of ChatInterface.initializeRAG after `await axios.post(.../init/..)`
InitResponse(r, o) ==
  LET c0 == IF Live(r)
            THEN [chat EXCEPT !.isLoading = FALSE,
                              !.ragInitialized = IF o.kind = "success" THEN TRUE ELSE @]
            ELSE chat
      n0 == IF o.kind = "success" THEN [net EXCEPT !.initOk = @ \cup {r.mount}]
            ELSE [net EXCEPT !.initFailed = @ \cup {r.mount}]
  IN  /\ r \in reqs /\ r.kind = "init"
      /\ app = "stepper"
      /\ error' = CASE o.kind = "success" -> error
                    [] o.kind = "refused" ->
                         << "RAG initialization failed: ", Or(NULL, "RAG initialization failed") >>
                    [] OTHER ->
                         << "RAG initialization failed: ", Or(o.f.detail, o.f.message) >>
      /\ UNCHANGED <<app, ragVariant, activePage, currentStep, sessionId, uploadedFile,
                     processingStatus, nerResults, summaryResults, isLoading, uploads,
                     timers, abortControllerRef>>
      /\ ChatEffects(chatHistory, reqs \ {r}, c0, n0, error' # error)

ChatNext ==
  \/ \E text \in Inputs \cup {Question} : SetMessage(text)
  \/ SendMessage
  \/ \E r \in reqs, o \in ChatOutcomes : ChatResponse(r, o)
  \/ \E t \in timers : AbortTimer(t)
  \/ \E r \in reqs, o \in HistoryOutcomes : HistoryResponse(r, o)
  \/ \E r \in reqs, o \in InitOutcomes : InitResponse(r, o)

----------------------------------------------------------------------------
(* The stand-alone RAGChat of src/components/rag-chat.tsx.  Its sessionId   *)
(* prop is optional (NULL: not passed); messages is kept in chatHistory,    *)
(* inputValue in chat.message.                                              *)

\* GET /rag/status -> { available, documents }
RagStatuses == { "unavailable", "empty", "ready" }

Available(s) == s \in {"empty", "ready"}

Documents(s) == IF s = "ready" THEN 1 ELSE 0

\* the continuation of checkRagStatus; when addDocumentToRAG awaits it
\* (r.text = "init") the rest of addDocumentToRAG follows
RagStatusResponse(r, o) ==
  LET after == r.text = "init"
  IN  /\ app = "legacy"
      /\ r \in reqs /\ r.kind = "ragstatus"
      /\ chat' = [chat EXCEPT !.ragStatus = IF o = "failure" THEN @ ELSE o,
                              !.isLoading = IF after THEN FALSE ELSE @]
      /\ chatHistory' = IF after
                        THEN Append(chatHistory,
                               AssistantMsg(<< "RAG initialized for session ", r.sid,
                                               ". You can now ask questions!" >>, 0))
                        ELSE chatHistory
      /\ reqs' = reqs \ {r}
      /\ UNCHANGED <<app, ragVariant, activePage, currentStep, sessionId, uploadedFile,
                     processingStatus, nerResults, summaryResults, error, isLoading,
                     uploads, chains, timers, abortControllerRef, net>>

\* addDocumentToRAG, the button (disabled while isLoading)
AddDocumentToRAG ==
  LET sid == Or(sessionId, chat.currentSessionId)
      n   == net.effects + 1
  IN  /\ app = "legacy"
      /\ ~chat.isLoading
      /\ net.effects < MaxEffects
      /\ IF sid = NULL
         THEN /\ chatHistory' = Append(chatHistory, AssistantMsg(Str(
                   "Provide a valid sessionId to initialize RAG (use hf1 upload first)."), 0))
              /\ UNCHANGED <<reqs, chat>>
         ELSE /\ reqs' = reqs \cup {Request("init", sid, chat.mount, n)}
              /\ chat' = [chat EXCEPT !.isLoading = TRUE]
              /\ UNCHANGED chatHistory
      /\ net' = [net EXCEPT !.effects = n]
      /\ UNCHANGED <<app, ragVariant, activePage, currentStep, sessionId, uploadedFile,
                     processingStatus, nerResults, summaryResults, error, isLoading,
                     uploads, chains, timers, abortControllerRef>>

\* the continuation of addDocumentToRAG after `await axios.post(.../init/${sid})`
LegacyInitResponse(r, o) ==
  LET ok == o.kind = "success"
  IN  /\ app = "legacy"
      /\ r \in reqs /\ r.kind = "init"
      /\ reqs' = IF ok
                 THEN (reqs \ {r}) \cup {[Request("ragstatus", r.sid, r.mount, r.id)
                                            EXCEPT !.text = "init"]}
                 ELSE reqs \ {r}
      /\ chat' = [chat EXCEPT !.currentSessionId = IF ok THEN r.sid ELSE @,
                              !.isLoading = IF ok THEN @ ELSE FALSE]
      /\ UNCHANGED <<app, ragVariant, activePage, currentStep, sessionId, uploadedFile,
                     processingStatus, nerResults, summaryResults, chatHistory, error,
                     isLoading, uploads, chains, timers, abortControllerRef, net>>

\* onChange of the input (disabled while loading or without documents)
LegacySetInput(text) ==
  /\ app = "legacy"
  /\ ~chat.isLoading /\ Available(chat.ragStatus) /\ Documents(chat.ragStatus) # 0
  /\ text # chat.message
  /\ chat' = [chat EXCEPT !.message = text]
  /\ UNCHANGED <<app, ragVariant, activePage, currentStep, sessionId, uploadedFile,
                 processingStatus, nerResults, summaryResults, chatHistory, error,
                 isLoading, uploads, chains, reqs, timers, abortControllerRef, net>>

\* sendMessage
LegacySendMessage ==
  LET sid == Or(sessionId, chat.currentSessionId)
      n   == net.sends + 1
  IN  /\ app = "legacy"
      /\ IF trim(chat.message) = "" \/ chat.isLoading
         THEN UNCHANGED vars
         ELSE /\ net.sends < MaxSends
              /\ chatHistory' = Append(chatHistory, UserMsg(chat.message, n))
              /\ chat' = [chat EXCEPT !.message = "", !.isLoading = TRUE]
              /\ reqs' = reqs \cup {[Request("chat", sid, chat.mount, n)
                                       EXCEPT !.text = chat.message]}
              /\ net' = [net EXCEPT !.sends = n, !.sentTo = Append(@, sid)]
              /\ UNCHANGED <<app, ragVariant, activePage, currentStep, sessionId,
                             uploadedFile, processingStatus, nerResults, summaryResults,
                             error, isLoading, uploads, chains, timers, abortControllerRef>>

\* the continuation of sendMessage after `await axios.post(.../chat/${sid})`
LegacyChatResponse(r, o) ==
  /\ app = "legacy"
  /\ r \in reqs /\ r.kind = "chat"
  /\ chatHistory' = Append(chatHistory,
       IF o.kind = "failure"
       THEN AssistantMsg(<< "Error: ", Or(o.f.detail, "Failed to get response from RAG system") >>,
                         r.id)
       ELSE AssistantMsg(Str("the answer"), r.id))
  /\ chat' = [chat EXCEPT !.isLoading = FALSE]
  /\ reqs' = reqs \ {r}
  /\ UNCHANGED <<app, ragVariant, activePage, currentStep, sessionId, uploadedFile,
                 processingStatus, nerResults, summaryResults, error, isLoading,
                 uploads, chains, timers, abortControllerRef, net>>

LegacyNext ==
  \/ \E r \in reqs, o \in RagStatuses \cup {"failure"} : RagStatusResponse(r, o)
  \/ AddDocumentToRAG
  \/ \E r \in reqs, o \in InitOutcomes : LegacyInitResponse(r, o)
  \/ \E text \in Inputs : LegacySetInput(text)
  \/ LegacySendMessage
  \/ \E r \in reqs, o \in [kind : {"answer"}] \cup [kind : {"failure"}, f : Failures] :
       LegacyChatResponse(r, o)

----------------------------------------------------------------------------
(* ChatPage of src/app/ner/[sessionId]/page.tsx:98-310, the routed chat     *)
(* page.  sessionId is the route parameter; `loading` is kept in isLoading, *)
(* `initialized` in chat.ragInitialized, the local isLoading in             *)
(* chat.isLoading, inputValue in chat.message, messages in chatHistory.     *)

\* GET /status/{id} as initializeRAGSession reads it: a body with a session,
\* a body without one, or a failure
PageStatusOutcomes ==
  [kind : {"body"}, b : StatusBodies] \cup [kind : {"nosession"}]
    \cup [kind : {"failure"}, f : Failures]

\* the continuation of initializeRAGSession after `await axios.get(.../status/..)`
PageStatusResponse(r, o) ==
  LET ready == o.kind = "body" /\ o.b.status = "completed"
  IN  /\ app = "chatpage"
      /\ r \in reqs /\ r.kind = "status"
      /\ reqs' = IF ready THEN (reqs \ {r}) \cup {Request("init", r.sid, r.mount, 1)}
                 ELSE reqs \ {r}
      /\ error' = CASE ready -> error
                    [] o.kind = "failure" ->
                         Str(Or(o.f.detail, "Failed to initialize chat session"))
                    [] OTHER -> Str("Session not found or processing not completed")
      /\ isLoading' = ready
      /\ UNCHANGED <<app, ragVariant, activePage, currentStep, sessionId, uploadedFile,
                     processingStatus, nerResults, summaryResults, chatHistory,
                     uploads, chains, chat, timers, abortControllerRef, net>>

\* the continuation of initializeRAGSession after `await axios.post(.../init/..)`
PageInitResponse(r, o) ==
  LET ok == o.kind = "success"
  IN  /\ app = "chatpage"
      /\ r \in reqs /\ r.kind = "init"
      /\ reqs' = reqs \ {r}
      /\ chat' = [chat EXCEPT !.ragInitialized = IF ok THEN TRUE ELSE @]
      /\ error' = CASE ok -> error
                    [] o.kind = "refused" -> Str("Failed to initialize RAG session")
                    [] OTHER -> Str(Or(o.f.detail, "Failed to initialize chat session"))
      /\ isLoading' = FALSE
      /\ net' = IF ok THEN [net EXCEPT !.initOk = @ \cup {r.mount}]
                ELSE [net EXCEPT !.initFailed = @ \cup {r.mount}]
      /\ UNCHANGED <<app, ragVariant, activePage, currentStep, sessionId, uploadedFile,
                     processingStatus, nerResults, summaryResults, chatHistory,
                     uploads, chains, timers, abortControllerRef>>

\* mutation: the card is rendered as soon as the spinner is gone
PageCardRendered_Mutant == ~isLoading

\* the chat card is rendered: not loading, no error, initialized
PageCardRendered == ~isLoading /\ error = NoMsg /\ chat.ragInitialized

\* onChange of the input (disabled while isLoading)
PageSetInput(text) ==
  /\ app = "chatpage"
  /\ PageCardRendered /\ ~chat.isLoading
  /\ text # chat.message
  /\ chat' = [chat EXCEPT !.message = text]
  /\ UNCHANGED <<app, ragVariant, activePage, currentStep, sessionId, uploadedFile,
                 processingStatus, nerResults, summaryResults, chatHistory, error,
                 isLoading, uploads, chains, reqs, timers, abortControllerRef, net>>

\* sendMessage, from the Enter key or the send button of the card
PageSendMessage ==
  LET n == net.sends + 1
  IN  /\ app = "chatpage"
      /\ PageCardRendered
      /\ IF trim(chat.message) = "" \/ chat.isLoading
         THEN UNCHANGED vars
         ELSE /\ net.sends < MaxSends
              /\ chatHistory' = Append(chatHistory, UserMsg(chat.message, n))
              /\ chat' = [chat EXCEPT !.message = "", !.isLoading = TRUE]
              /\ reqs' = reqs \cup {[Request("chat", sessionId, chat.mount, n)
                                       EXCEPT !.text = chat.message]}
              /\ net' = [net EXCEPT !.sends = n, !.sentTo = Append(@, sessionId)]
              /\ UNCHANGED <<app, ragVariant, activePage, currentStep, sessionId,
                             uploadedFile, processingStatus, nerResults, summaryResults,
                             error, isLoading, uploads, chains, timers, abortControllerRef>>

\* the continuation of sendMessage after `await axios.post(.../chat/..)`
PageChatResponse(r, o) ==
  /\ app = "chatpage"
  /\ r \in reqs /\ r.kind = "chat"
  /\ chatHistory' = Append(chatHistory,
       IF o.kind = "failure"
       THEN AssistantMsg(<< "Error: ", Or(o.f.detail, "Failed to get response") >>, r.id)
       ELSE AssistantMsg(Str("the answer"), r.id))
  /\ chat' = [chat EXCEPT !.isLoading = FALSE]
  /\ reqs' = reqs \ {r}
  /\ UNCHANGED <<app, ragVariant, activePage, currentStep, sessionId, uploadedFile,
                 processingStatus, nerResults, summaryResults, error, isLoading,
                 uploads, chains, timers, abortControllerRef, net>>

ChatPageNext ==
  \/ \E r \in reqs, o \in PageStatusOutcomes : PageStatusResponse(r, o)
  \/ \E r \in reqs, o \in InitOutcomes : PageInitResponse(r, o)
  \/ \E text \in Inputs : PageSetInput(text)
  \/ PageSendMessage
  \/ \E r \in reqs, o \in [kind : {"answer"}] \cup [kind : {"failure"}, f : Failures] :
       PageChatResponse(r, o)

----------------------------------------------------------------------------
(* Specifications                                                           *)

UploadNext ==
  \/ \E f \in Files : HandleFile(f)
  \/ \E u \in uploads, o \in UploadOutcomes : UploadResponse(u, o)
  \/ ResetSession
  \/ \E i \in Pages : NavClick(i)

PollNext ==
  \/ \E c \in chains, o \in StatusOutcomes : StatusResponse(c, o)
  \/ \E c \in chains : PollTimer(c)
  \/ \E c \in chains, o \in ResultsOutcomes : ResultsResponse(c, o)

\* the user of the pages with pollers: uploads, resets, moves between the
\* upload, NER and Summary tabs, starts the chat step
PollSysNext ==
  \/ \E f \in Files : HandleFile(f)
  \/ \E u \in uploads, o \in UploadOutcomes : UploadResponse(u, o)
  \/ ResetSession
  \/ \E i \in Pages \ {"chat"} : NavClick(i)
  \/ PollNext
  \/ StartChat

Next == UploadNext \/ PollNext \/ StartChat \/ ChatNext \/ LegacyNext \/ ChatPageNext

Init == \E a \in Apps : InitApp(a)

\* every component, every back end
Spec == Init /\ [][Next]_vars

\* the tabbed page with its chat tab; the status back end stays silent
TabbedChatNext ==
  \/ \E f \in Files : HandleFile(f)
  \/ \E u \in uploads, o \in UploadOutcomes : UploadResponse(u, o)
  \/ ResetSession
  \/ \E i \in {"upload", "chat"} : NavClick(i)
  \/ \E text \in Inputs \cup {Question} : SetMessage(text)
  \/ SendMessage
  \/ \E r \in reqs, o \in ChatOutcomes : ChatResponse(r, o)
  \/ \E t \in timers : AbortTimer(t)
  \/ \E r \in reqs, o \in HistoryOutcomes : HistoryResponse(r, o)

SpecChat == InitApp("tabbed") /\ [][TabbedChatNext]_vars

\* the abort-controller variants of the chat tab with timers that fire: every
\* armed setTimeout callback runs eventually; the chat back end may stay
\* silent for ever
SpecChatLive ==
  /\ \E v \in {"A", "B"} : InitApp("tabbed") /\ ragVariant = v
  /\ [][TabbedChatNext]_vars
  /\ WF_vars(\E t \in timers : AbortTimer(t))

\* the stepper page from upload to chat
StepperNext ==
  \/ \E f \in Files : HandleFile(f)
  \/ \E u \in uploads, o \in UploadOutcomes : UploadResponse(u, o)
  \/ ResetSession
  \/ PollNext
  \/ StartChat
  \/ \E text \in Inputs \cup {Question} : SetMessage(text)
  \/ SendMessage
  \/ \E r \in reqs, o \in ChatOutcomes : ChatResponse(r, o)
  \/ \E r \in reqs, o \in HistoryOutcomes : HistoryResponse(r, o)
  \/ \E r \in reqs, o \in InitOutcomes : InitResponse(r, o)

SpecStepperChat == InitApp("stepper") /\ [][StepperNext]_vars

\* the two chat views that call POST /init when they mount: ChatInterface
\* in the stepper page (one session, from upload to chat) and the routed
\* ChatPage
InitChatNext ==
  \/ \E f \in Files : HandleFile(f)
  \/ \E u \in uploads, o \in UploadOutcomes : UploadResponse(u, o)
  \/ PollNext
  \/ StartChat
  \/ \E text \in Inputs \cup {Question} : SetMessage(text)
  \/ SendMessage
  \/ \E r \in reqs, o \in ChatOutcomes : ChatResponse(r, o)
  \/ \E r \in reqs, o \in HistoryOutcomes : HistoryResponse(r, o)
  \/ \E r \in reqs, o \in InitOutcomes : InitResponse(r, o)
  \/ ChatPageNext

SpecInitChat == (InitApp("stepper") \/ InitApp("chatpage")) /\ [][InitChatNext]_vars

\* the routed ChatPage alone
SpecChatPage == InitApp("chatpage") /\ [][ChatPageNext]_vars

\* the stand-alone RAGChat
SpecLegacy == InitApp("legacy") /\ [][LegacyNext]_vars

\* the upload component alone
SpecUpload == InitApp("upload") /\ [][UploadNext]_vars

\* the two pages with their pollers; the chat back end stays silent
SpecPoll == (InitApp("stepper") \/ (InitApp("tabbed") /\ ragVariant = "A"))
              /\ [][PollSysNext]_vars

----------------------------------------------------------------------------
(* Upload validation                                                        *)

\* The extension as the specification words it: the lower-cased text after the
\* last '.', none for a name without '.'.
TextAfterLastDot(file) ==
  IF Len(file.name) >= 2 THEN toLowerCase(file.name[Len(file.name)]) ELSE NULL

ExtensionAllowed(file) == TextAfterLastDot(file) \in {"pdf", "txt", "docx", "doc"}

NoPost == uploads' = uploads /\ net'.uploads = net.uploads

\* C1: handleFile of a file whose lower-cased text after the last '.' is not
\* pdf, txt, docx or doc (a name without '.' included) issues no upload POST
\* and sets the banner to the 'Unsupported file type' message with the allow-list.
C1_DisallowedExtensionRejected ==
  [][ \A f \in Files :
        (HandleFile(f) /\ ~ExtensionAllowed(f)) => (NoPost /\ error' = UnsupportedMsg) ]_vars

\* a file with a disallowed extension has just been refused, nothing posted
C1_Witness == error = UnsupportedMsg /\ uploads = {} /\ net.uploads = 0

\* C2: handleFile rejects a file for size exactly when its size exceeds
\* 50*1024*1024 bytes: no POST for any file above the limit whatever its
\* extension, the size message exactly for the accepted types above the limit,
\* and a file of exactly the limit with an allowed extension is posted.
C2_SizeLimit ==
  [][ \A f \in Files : HandleFile(f) =>
        /\ (f.size > 50 * 1024 * 1024) => NoPost
        /\ ~TypeRejected(f) => ((error' = TooLargeMsg) <=> (f.size > 50 * 1024 * 1024))
        /\ (f.size = 50 * 1024 * 1024 /\ ExtensionAllowed(f)) =>
              /\ error' = NoMsg
              /\ \E u \in uploads' \ uploads : u.file = f ]_vars

\* a file of exactly the limit is in flight and a larger one has just been refused
C2_Witness ==
  /\ error = TooLargeMsg
  /\ \E u \in uploads : u.file.size = SizeLimit

----------------------------------------------------------------------------
(* Status pollers                                                           *)

Body(st, e) == [kind |-> "body", b |-> [status |-> st, error |-> e]]

ChainIds(cs) == { c.id : c \in cs }

\* C3: a status response 'failed' ends the chain that received it (no further
\* status or results request of that chain, whose id is never used again) and
\* sets the banner to the session's error verbatim, or to 'Processing failed'
\* when the field is absent or empty.
C3_FailedStopsChain ==
  [][ /\ \A d \in chains' : d.id \in ChainIds(chains) \/ d.id > net.chains
      /\ \A c \in chains, e \in ErrorFields :
           StatusResponse(c, Body("failed", e)) =>
              /\ c.id \notin ChainIds(chains')
              /\ net'.results = net.results
              /\ error' = IF e \in {NULL, ""} THEN << "Processing failed" >> ELSE << e >> ]_vars

\* a 'failed' body with an error string has been received and its chain is gone
C3_Witness == error = << "boom" >> /\ net.chains > 0 /\ chains = {}

\* C4: ProcessingMonitor issues exactly one GET /results/{sessionId} for a
\* session, over all status responses and all renders of the parent.
C4_OneResultsFetch ==
  app = "stepper" => \A s \in SessionIds : net.results[s] <= 1

\* C10: ProcessingMonitor, after a status body that is neither 'completed' nor
\* 'failed' (unrecognised values included), schedules one further status
\* request 2000 ms later, however many requests the chain has made already.
C10_NonTerminalKeepsPolling ==
  [][ \A c \in chains, st \in StatusValues \ {"completed", "failed"} :
        (c.comp = "pm" /\ StatusResponse(c, Body(st, NULL))) =>
          /\ \E d \in chains' : d.id = c.id /\ d.pc = "timer" /\ d.delay = 2000 /\ d.n = c.n
          /\ \A d, e \in chains' : d.id = e.id => d = e
          /\ net'.results = net.results ]_vars

\* an unrecognised status has been received by a chain on its second request
\* at least, and the chain waits for its next one
C10_Witness ==
  /\ processingStatus = "queued"
  /\ \E c \in chains : c.comp = "pm" /\ c.pc = "timer" /\ c.n >= 2

----------------------------------------------------------------------------
(* Chat                                                                     *)

ChatReqs(rs) == { r \in rs : r.kind = "chat" }

IsPrefix(s, t) == Len(s) <= Len(t) /\ \A i \in 1..Len(s) : s[i] = t[i]

\* no answer stands below the question of a later request
AnswersInOrder(h) ==
  \A i \in 1..Len(h) : \A j \in 1..Len(h) :
    (h[i].role = "user" /\ h[j].role = "assistant" /\ ~h[j].error
       /\ h[j].re > 0 /\ h[j].re < h[i].re) => (j < i)

C5_Step ==
  ragVariant \in {"A", "B"} =>
    /\ net'.sends > net.sends =>
         \A r \in ChatReqs(reqs) : r.sid = sessionId => r \notin reqs'
    /\ AnswersInOrder(chatHistory')

\* C5: RAGChat with an abort controller: a send while an earlier chat
\* request of the session is still outstanding aborts that request (it is
\* no longer in flight afterwards), and no answer is ever appended below the
\* question of a later request.
C5_PreviousRequestAborted == [][C5_Step]_vars

LoadingTexts ==
  { "Document loading timed out. The document may be large or the server may be busy. Please try again.",
    "Document loading timed out. The server may be busy; please try again." }

QuestionTexts ==
  { "Query timed out. Please try a simpler question or try again.",
    "Your question timed out. Please try a simpler question or try again." }

\* the chat calls made for session sid before call number n
EarlierCalls(sid, n) == { k \in 1..(n - 1) : net.sentTo[k] = sid }

C6_Step ==
  \A t \in timers, r \in ChatReqs(reqs) :
    (AbortTimer(t) /\ r \notin reqs') =>
      LET m == chatHistory'[Len(chatHistory')]
      IN  /\ m.error /\ m.re = r.id /\ error' = m.message
          /\ (EarlierCalls(r.sid, r.id) = {} /\ ~r.prior) =>
                m.message[1] \in LoadingTexts
          /\ EarlierCalls(r.sid, r.id) # {} => m.message[1] \in QuestionTexts

\* C6: RAGChat: a timeout that aborts the first chat call of a session (no
\* assistant message in the log before it) appends and shows the 'Document
\* loading timed out' text; a timeout that aborts a later call of the
\* session appends and shows the 'Query timed out' / 'Your question timed
\* out' text.
C6_TimeoutVariant == [][C6_Step]_vars

C7_Step ==
  /\ \A r \in ChatReqs(reqs), o \in ChatOutcomes :
       (o.kind # "answer" /\ ChatResponse(r, o)) =>
          /\ Len(chatHistory') = Len(chatHistory) + 1
          /\ chatHistory'[Len(chatHistory')].role = "assistant"
          /\ chatHistory'[Len(chatHistory')].error
          /\ ChatReqs(reqs') = ChatReqs(reqs) \ {r}
  /\ \A t \in timers :
       (AbortTimer(t) /\ ChatReqs(reqs') # ChatReqs(reqs)) =>
          /\ Len(chatHistory') = Len(chatHistory) + 1
          /\ chatHistory'[Len(chatHistory')].role = "assistant"
          /\ chatHistory'[Len(chatHistory')].error
          /\ ChatReqs(reqs') \subseteq ChatReqs(reqs)
          /\ Cardinality(ChatReqs(reqs) \ ChatReqs(reqs')) = 1
  /\ Cardinality(ChatReqs(reqs') \ ChatReqs(reqs)) = net'.sends - net.sends
  /\ net'.sends - net.sends <= 1
  /\ (sessionId' = sessionId /\ EarlierCalls(sessionId, net.sends + 1) # {}) =>
        Len(chatHistory') = Len(chatHistory) + (net'.sends - net.sends)
                              + Cardinality(ChatReqs(reqs) \ ChatReqs(reqs'))

\* C7: a chat POST that fails appends exactly one assistant message with
\* error=true and is not sent again; chat POSTs are issued by send actions
\* only, one each; so the log of a session grows by one entry per send and one
\* per completed call, and by nothing else.
C7_OneErrorMessagePerFailure == [][C7_Step]_vars

\* C8: no POST /init/{id} or /chat/{id} is in flight with a null session id.
C8_NoPostWithoutSession ==
  \A r \in reqs : r.kind \in {"init", "chat"} => r.sid # NULL

C9_Step ==
  ResetSession \/ IsPrefix(chatHistory, chatHistory')

\* C9: between two resets the chat log only grows at its end: every step
\* other than resetSession leaves the old log as a prefix of the new one.
C9_AppendOnly == [][C9_Step]_vars

----------------------------------------------------------------------------
(* Pollers and request failures                                             *)

Failure(f) == [kind |-> "failure", f |-> f]

\* a request of chain c has just failed
RequestFailed(c) ==
  \E f \in Failures : StatusResponse(c, Failure(f)) \/ ResultsResponse(c, Failure(f))

C13_ChainStops_Step ==
  \A c \in chains : RequestFailed(c) => c.id \notin ChainIds(chains')

\* the chain-level half of C13: the chain whose request failed is gone
C13_ChainStops == [][C13_ChainStops_Step]_vars

C13_Step ==
  \A c \in chains : RequestFailed(c) =>
    /\ c.id \notin ChainIds(chains')
    /\ net'.polls = net.polls
    /\ \A d \in chains' : d.sid = c.sid => d \in chains

\* C13: status polling is not retried after a request failure: the step in
\* which a status or results request of a polling chain fails ends that chain
\* and issues no new status request for its session.
C13_NoRetryAfterFailure == [][C13_Step]_vars

C14_Step ==
  \A c \in chains : RequestFailed(c) => error' # NoMsg

\* C14: the step in which a status or results request of a poller fails
\* (ProcessingMonitor.checkStatus, the first fetch and pollStatus of the NER
\* and Summary views) leaves the error banner set to a message, not null.
C14_FailureSetsBanner == [][C14_Step]_vars

C17_Step ==
  /\ \A c \in chains :
        \/ \E d \in chains' : d.id = c.id
        \/ /\ c.pc \in {"status", "results"}
           /\ sessionId' = sessionId /\ activePage' = activePage
           /\ currentStep' = currentStep \/ (c.comp = "pm" /\ c.pc = "results")
  /\ \A c \in chains : (~PollerMounted(c) /\ PollTimer(c)) =>
        \E d \in chains' : d.id = c.id /\ d.sid = c.sid /\ d.pc = "status" /\ d.n = c.n + 1
  /\ \A c \in chains, st \in {"uploaded", "processing"} :
        (~PollerMounted(c) /\ StatusResponse(c, Body(st, NULL))) =>
          \E d \in chains' : d.id = c.id /\ d.sid = c.sid /\ d.pc = "timer" /\ d.delay = 2000

\* C17: a polling chain of ProcessingMonitor, NER or Summary ends only while
\* it awaits a response and in a step that leaves the session and the page
\* as they are (its own onComplete apart): no unmount, tab change or
\* resetSession removes it;
\* once its view is gone its 2000 ms timer, when it fires, still issues the
\* next status request for the chain's own (old) session id, and a
\* non-terminal status ('uploaded', 'processing') arms the timer again.
C17_PollingNotCancelled == [][C17_Step]_vars

\* after resetSession a chain has issued a status request for the old
\* session, received a non-terminal status and waits for its next request
C17_Witness ==
  /\ sessionId = NULL
  /\ \E c \in chains : c.late >= 1 /\ c.pc = "timer" /\ c.sid # NULL

----------------------------------------------------------------------------
(* Stepper page                                                             *)

C18_Step ==
  app = "stepper" =>
    /\ currentStep' # currentStep =>
          \/ currentStep = "upload" /\ currentStep' = "processing"
               /\ \E u \in uploads : UploadResponse(u, [kind |-> "success"])
          \/ currentStep = "processing" /\ currentStep' = "results"
               /\ \E c \in chains : c.sid = sessionId /\ ResultsResponse(c, [kind |-> "success"])
          \/ currentStep = "results" /\ currentStep' = "chat" /\ StartChat
          \/ currentStep' = "upload" /\ ResetSession
    /\ currentStep' \in {"results", "chat"} => sessionId' # NULL

\* C18: the stepper's currentStep changes only upload -> processing (upload
\* success), processing -> results (results of the current session fetched),
\* results -> chat (Start AI Chat), and anything -> upload by resetSession; so
\* it is never 'results' or 'chat' while sessionId is null.
C18_StepOrder == [][C18_Step]_vars

\* the ProcessingMonitor chains with a status request in flight or a poll
\* timer pending for session sid
Polling(sid) ==
  { c \in chains : c.comp = "pm" /\ c.sid = sid /\ c.pc \in {"status", "timer"} }

\* C19: ProcessingMonitor runs at most one polling chain per session: at any
\* time at most one status request is in flight or one poll timer is pending
\* for the session, however often the parent renders.
C19_OneChainPerSession ==
  \A sid \in SessionIds : Cardinality(Polling(sid)) <= 1

----------------------------------------------------------------------------
(* Session lifecycle                                                        *)

C12_Step ==
  /\ (sessionId = NULL /\ sessionId' # NULL) =>
        /\ \E u \in uploads : UploadResponse(u, [kind |-> "success"])
        /\ uploadedFile' # NoFile
  /\ (ResetSession \/ (sessionId # NULL /\ sessionId' = NULL)) =>
        /\ IF app = "stepper"
           THEN currentStep' = "upload" /\ processingStatus' = NULL
           ELSE activePage' = "upload"
        /\ sessionId' = NULL
        /\ uploadedFile' = NoFile
        /\ nerResults' = NULL
        /\ summaryResults' = NULL
        /\ chatHistory' = << >>
        /\ error' = NoMsg

\* C12: sessionId goes from null to a value only in the step of a successful
\* upload response, and resetSession (the only step that sets it back to
\* null) sets, in that one step, the page or step to 'upload', sessionId,
\* uploadedFile, nerResults, summaryResults (and processingStatus in the
\* stepper) to null, chatHistory to the empty list and error to null.
C12_SessionLifecycle == [][C12_Step]_vars

\* a session was created by an upload and has been reset; the results that
\* were fetched for it are gone
C12_Witness ==
  /\ net.sessions > 0 /\ sessionId = NULL /\ uploadedFile = NoFile
  /\ \E s \in SessionIds : net.results[s] > 0
  /\ nerResults = NULL /\ summaryResults = NULL /\ error = NoMsg

----------------------------------------------------------------------------
(* RAGChat: abort timers                                                    *)

C15_Step ==
  \A t \in timers' \ timers :
    t.ms = IF sessionId \in net.answered THEN 25000 ELSE 45000

\* C15: RAGChat arms the abort timer of a chat request with 45000 ms exactly
\* when no assistant answer has been received for the session so far (none
\* loaded from history, none returned by an earlier successful call), and
\* with 25000 ms otherwise; a call after a failed first call still gets 45000.
C15_TimeoutSelection == [][C15_Step]_vars

C16_Step ==
  \A t \in timers : AbortTimer(t) =>
    \A r \in ChatReqs(reqs) \ ChatReqs(reqs') : r.id = t.req

\* C16: RAGChat: when the timeout timer armed for a chat request fires, the
\* only request it can abort is the one it was armed for; after that request
\* has settled the timer aborts nothing, in particular no request sent later.
C16_TimerAbortsOwnRequest == [][C16_Step]_vars

----------------------------------------------------------------------------
(* Chat views with an init call                                             *)

C11_Step ==
  \A r \in ChatReqs(reqs') \ ChatReqs(reqs) :
    r.mount \in net.initOk /\ r.mount \notin net.initFailed

\* C11: ChatInterface and ChatPage: a chat POST is issued by a mounted view
\* only after a POST /init of that same mount has returned success=true, and
\* never by a mount one of whose init calls failed or returned success=false.
C11_InitBeforeChat == [][C11_Step]_vars

C11_InitFirst_Step ==
  \A r \in ChatReqs(reqs') \ ChatReqs(reqs) : r.mount \in net.initOk

\* the first half of C11 alone: init success precedes every chat POST
C11_InitFirst == [][C11_InitFirst_Step]_vars

C20_Step ==
  app = "stepper" =>
    /\ net'.effects > net.effects => net'.mounts > net.mounts
    /\ \A r \in reqs' \ reqs :
          r.kind \in {"init", "history"} => (net'.mounts > net.mounts /\ r.mount = net'.mounts)

\* C20: ChatInterface issues POST /init and GET /history in the step that
\* mounts it and in no later step while it stays mounted: no send, chat
\* response, init response or history response issues them again.
C20_InitOncePerMount == [][C20_Step]_vars

----------------------------------------------------------------------------
(* NER and Summary views                                                    *)

C21_Step ==
  \A c \in chains, st \in StatusValues \ {"completed", "failed"} :
    (c.comp \in {"ner", "summary"} /\ StatusResponse(c, Body(st, NULL))) =>
      \E d \in chains' : d.id = c.id /\ d.sid = c.sid /\ d.pc = "timer" /\ d.delay = 2000

\* C21: NER and Summary views: every status body that is neither 'completed'
\* nor 'failed' arms the 2000 ms timer of a further status request, the first
\* response after mount and status values other than uploaded / processing
\* included.
C21_ViewsKeepPolling == [][C21_Step]_vars

----------------------------------------------------------------------------
(* Upload outcome                                                           *)

\* the page shown: the stepper's step or the tabbed page
Shown == IF app = "stepper" THEN currentStep ELSE activePage

C22_Step ==
  /\ \A f \in Files :
        HandleFile(f) =>
          IF Validate(f) = "ok"
          THEN /\ net'.uploads = net.uploads + 1
               /\ \E u \in uploads' : u.file = f /\ uploads' = uploads \cup {u} /\ u \notin uploads
          ELSE net'.uploads = net.uploads /\ uploads' = uploads
  /\ \A u \in uploads, o \in UploadOutcomes :
        UploadResponse(u, o) =>
          /\ net'.uploads = net.uploads
          /\ IF o.kind = "success"
             THEN /\ sessionId' = SessionName(net.sessions + 1)
                  /\ uploadedFile' = u.file
                  /\ net'.sessions = net.sessions + 1
                  /\ Shown' # "upload"
             ELSE /\ sessionId' = sessionId
                  /\ uploadedFile' = uploadedFile
                  /\ net'.sessions = net.sessions
                  /\ Shown' = Shown
                  /\ error' # NoMsg
          /\ (app = "stepper" \/ u.live) => isLoading' = FALSE

\* C22: upload outcome: handleFile of a file that passes validation issues
\* exactly one POST /upload (and none for a rejected file); the response calls
\* onUpload(file, session_id) exactly when it carries success=true; a failed
\* POST or a success=false body leaves sessionId and the page shown as they
\* were (null and 'upload' for a first upload) and sets the error banner; in
\* both outcomes the isLoading of the uploader that posted is false afterwards.
C22_UploadOutcome == [][C22_Step]_vars

\* a first upload was refused: no session, still on 'upload', banner set
C22_Witness ==
  /\ net.uploads = 1 /\ uploads = {} /\ net.sessions = 0
  /\ sessionId = NULL /\ Shown = "upload" /\ ~isLoading
  /\ error = UploadErrorMsg([kind |-> "refused", message |-> NULL])

\* C26: at most one upload POST of the mounted uploader is in flight at any
\* time: while one is pending, neither the file picker nor a drop of another
\* file starts a second one.
C26_OneUploadInFlight ==
  \A u \in uploads, v \in uploads : (u.live /\ v.live) => u = v

----------------------------------------------------------------------------
(* Chat recovery                                                            *)

\* the chat request numbered n, issued by the instance mounted m-th, is outstanding
Outstanding(n, m) == \E r \in reqs : r.kind = "chat" /\ r.id = n /\ r.mount = m

\* its catch / finally ran: an assistant entry for it is the last of the
\* log and the instance that issued it, if still mounted, is not loading
Recovered(n, m) ==
  /\ ~Outstanding(n, m)
  /\ Len(chatHistory) > 0
  /\ chatHistory[Len(chatHistory)].role = "assistant"
  /\ chatHistory[Len(chatHistory)].re = n
  /\ (ChatMounted /\ chat.mount = m) => ~chat.isLoading

----------------------------------------------------------------------------
(* Results and chat history of a session                                    *)

\* C24: in the tabbed page, results belong to the current session: whenever
\* nerResults or summaryResults is non-null it was fetched from /results/{id}
\* with id the current sessionId; after resetSession both stay null until
\* results of a newly uploaded session arrive.
C24_ResultsOfCurrentSession ==
  app = "tabbed" =>
    /\ nerResults # NULL => nerResults = ResultsOf(sessionId)
    /\ summaryResults # NULL => summaryResults = ResultsOf(sessionId)

\* C25: chat history belongs to the current session: every message of the
\* parent's chatHistory that a chat request produced was sent or received for
\* the current sessionId; a response that arrives after resetSession or after
\* the chat view unmounted is not appended to a later log.
C25_HistoryOfCurrentSession ==
  \A i \in 1..Len(chatHistory) :
    chatHistory[i].re # 0 => net.sentTo[chatHistory[i].re] = sessionId

----------------------------------------------------------------------------
(* Navigation of the tabbed page                                            *)

C27_Inv ==
  app = "tabbed" => (activePage \in {"ner", "summary", "chat"} => sessionId # NULL)

C27_Step ==
  app = "tabbed" =>
    /\ \A item \in Pages : (NavClick(item) /\ ~NavEnabled(item)) => UNCHANGED vars
    /\ ResetSession => (sessionId' = NULL /\ activePage' = "upload")
    /\ \A u \in uploads :
         UploadResponse(u, [kind |-> "success"]) => (sessionId' # NULL /\ activePage' = "ner")
    /\ sessionId' # sessionId =>
         \/ sessionId' = NULL /\ activePage' = "upload"
         \/ sessionId' # NULL /\ activePage' = "ner"

\* C27: navigation of the tabbed page: in every reachable state activePage is
\* 'ner', 'summary' or 'chat' only if sessionId is non-null; a click on a
\* disabled tab changes nothing; resetSession and handleFileUpload each set
\* activePage and sessionId in the same step ('upload' with null, 'ner' with
\* the new session).
C27_TabbedNavigation == [](C27_Inv) /\ [][C27_Step]_vars

\* a tab that needs a session is shown, reached by a click, after a click on
\* it was refused before the upload
C27_Witness ==
  app = "tabbed" /\ activePage = "summary" /\ sessionId # NULL /\ net.uploads = 1

----------------------------------------------------------------------------
(* sendMessage: guard and payload                                           *)

\* inputs that are empty once trimmed
Blank == { "", " " }

\* an input without its leading and trailing white space
Unpadded(s) == IF s = " q " THEN "q" ELSE s

\* the session of the view can be used
Usable == IF Variant = "CI" THEN chat.ragInitialized ELSE sessionId # NULL

C28_Step ==
  app \in {"stepper", "tabbed"} =>
    /\ (SendMessage /\ (chat.message \in Blank \/ chat.isLoading \/ ~Usable)) =>
          UNCHANGED vars
    /\ \A r \in reqs' \ reqs :
          r.kind = "chat" =>
            /\ chat.message \notin Blank /\ ~chat.isLoading /\ Usable
            /\ r.text = Unpadded(chat.message)
            /\ r.text \notin {" ", " q "}
            /\ \E i \in 1..Len(chatHistory') : chatHistory'[i] = UserMsg(r.text, r.id)
            /\ chat'.message = "" /\ chat'.isLoading

\* C28: sendMessage is a no-op (chatHistory, input text, isLoading and error
\* unchanged, no request issued) whenever the trimmed input is empty, or
\* isLoading is true, or the session is not usable (sessionId null in RAGChat,
\* ragInitialized false in ChatInterface); otherwise the appended user message
\* and the request body both carry the trimmed input.
C28_SendGuard == [][C28_Step]_vars

\* the padded input " q " was sent: the request and the user message carry "q"
C28_Witness ==
  /\ app \in {"stepper", "tabbed"}
  /\ \E r \in reqs : r.kind = "chat" /\ r.text = "q" /\ r.id = 1
  /\ chatHistory = << UserMsg("q", 1) >>
  /\ chat.isLoading

----------------------------------------------------------------------------
(* ChatInterface: one chat request at a time                                *)

\* the log alternates user, assistant, user, assistant from its first entry
Alternates(h) ==
  \A i \in 1..Len(h) : h[i].role = (IF i % 2 = 1 THEN "user" ELSE "assistant")

\* C29: ChatInterface keeps at most one chat request in flight: isLoading is
\* true for the whole time a chat request of the mounted view is outstanding,
\* and while none is outstanding the log, started empty, alternates user,
\* assistant, user, assistant.
C29_OneChatInFlight ==
  (app = "stepper" /\ ChatMounted) =>
    LET out == { r \in reqs : r.kind = "chat" /\ r.mount = chat.mount }
    IN  /\ Cardinality(out) <= 1
        /\ out # {} => chat.isLoading
        /\ (out = {} /\ net.answered = {} /\ \A i \in 1..Len(chatHistory) : chatHistory[i].re # 0)
              => Alternates(chatHistory)

----------------------------------------------------------------------------
(* ChatPage: status before init                                             *)

\* requests of the page of the given kind
PageReqs(kind) == { r \in reqs : r.kind = kind }

C30_Inv ==
  app = "chatpage" =>
    /\ PageCardRendered => chat.mount \in net.initOk
    /\ chat.ragInitialized => chat.mount \in net.initOk
    /\ PageReqs("init") # {} => (PageReqs("status") = {} /\ isLoading /\ error = NoMsg)
    /\ (PageReqs("status") = {} /\ PageReqs("init") = {} /\ net.initOk = {}) =>
          (error # NoMsg /\ ~isLoading /\ ~chat.ragInitialized /\ ~PageCardRendered)

C30_Step ==
  app = "chatpage" =>
    /\ \A r \in PageReqs("status"), o \in PageStatusOutcomes :
          PageStatusResponse(r, o) =>
            IF o.kind = "body" /\ o.b.status = "completed"
            THEN PageReqs("init")' = {Request("init", sessionId, chat.mount, 1)}
            ELSE /\ PageReqs("init")' = {}
                 /\ ~chat'.ragInitialized
                 /\ error' # NoMsg
                 /\ ~isLoading'
                 /\ net'.initOk = {} /\ net'.initFailed = {}
    /\ PageReqs("init")' # PageReqs("init") =>
          \/ \E r \in PageReqs("status") :
                PageStatusResponse(r, Body("completed", NULL))
          \/ PageReqs("init")' = {}

\* C30: ChatPage handshake: POST /init/{sessionId} is issued only in the step
\* in which GET /status/{sessionId} returned a session with status
\* 'completed'; for any other status, a missing session or a failed request no
\* init is issued, initialized stays false, error is set and loading returns
\* to false, and the chat card with its input is never rendered.
C30_Handshake == [](C30_Inv) /\ [][C30_Step]_vars

\* the status request returned a session that is still processing: no init,
\* the error is shown in place of the chat card
C30_Witness ==
  /\ app = "chatpage" /\ reqs = {} /\ net.initOk = {} /\ net.initFailed = {}
  /\ error = Str("Session not found or processing not completed")
  /\ ~isLoading /\ ~PageCardRendered

====
